---- MODULE Spec2Model ----
(***************************************************************************)
(* State-machine model of emotion_music_player.py (EmotionMusicPlayer).    *)
(*                                                                         *)
(* One loop iteration of run() is one action.  The camera, the FER         *)
(* detector, the wall clock and the pygame mixer are the environment:      *)
(* their answers are inputs drawn from small sets.                         *)
(*                                                                         *)
(* Units: time.time() is counted in whole seconds; FER scores are counted  *)
(* in hundredths (0.30 is 30).  frame_count is kept modulo                 *)
(* detection_frequency, the only way run() ever reads it (line 221).       *)
(***************************************************************************)
EXTENDS Integers, Sequences, FiniteSets, TLC

VARIABLES
    pc,                    \* "init" (constructed), "loop" (in run), "done" (run returned);
                           \* "call", "return" around a direct call of a method
    cap_opened,            \* the cv2.VideoCapture is held
    mixer_init,            \* pygame.mixer is initialised
    music_busy,            \* pygame.mixer.music.get_busy()
    now,                   \* time.time()
    emotion_history,       \* self.emotion_history, deque(maxlen=10)
    current_emotion,       \* self.current_emotion
    current_song,          \* self.current_song
    frame_count,           \* run(): frame_count % detection_frequency
    pending_emotion,       \* run(): pending_emotion
    pending_emotion_time,  \* run(): pending_emotion_time
    norm_arg,              \* a direct call of get_dominant_emotion_category: its argument
    norm_ret,              \* ... and what it returned with return_confidence=True
    smoothed_emotion,      \* run(): smoothed_emotion
    appended,              \* the category the last iteration appended to the history
    play_calls,            \* calls of play_song_for_emotion made by the last iteration
    mixer_ops,             \* pygame.mixer calls made by the last iteration
    pushed,                \* log of every category appended to emotion_history
    observed,              \* log of what the last iteration read: frame, detector, key
    timeline               \* log of the clock at the first smoothed output and at the commits

vars == <<pc, cap_opened, mixer_init, music_busy, now, emotion_history,
          current_emotion, current_song, frame_count, pending_emotion,
          pending_emotion_time, norm_arg, norm_ret,
          smoothed_emotion, appended, play_calls, mixer_ops, pushed,
          observed, timeline>>

(***************************************************************************)
(* Values and program constants                                            *)
(***************************************************************************)
None == "None"

NoTime == -1

Moods == {"happy", "sad", "neutral"}

emotion_stability_threshold == 3

history_maxlen == 10

confidence_threshold == 30

detection_frequency == 3

min_history == 3

emotion_categories ==
    << <<"happy", {"happy"}>>,
       <<"sad", {"sad", "fear", "angry"}>>,
       <<"neutral", {"neutral", "surprise", "disgust"}>> >>

(***************************************************************************)
(* Bounds of the model                                                     *)
(***************************************************************************)
MaxTime == 6

PlayTime == 3

LiveTime == 4

MaxLabels == 2

MaxPushes == 11

ObsTime == 3

(***************************************************************************)
(* The songs directory scanned by load_songs                               *)
(***************************************************************************)
\* What os.listdir finds in each folder of songs_dir: the joined path of the
\* file and the extension its name ends with.
Entry(path, ext) == [path |-> path, ext |-> ext]

SongsDir ==
    [happy   |-> <<Entry("happy/a1.mp3", ".mp3"), Entry("happy/cover.jpg", ".jpg"),
                   Entry("happy/a2.wav", ".wav")>>,
     sad     |-> <<Entry("sad/notes.txt", ".txt")>>,
     neutral |-> <<Entry("neutral/n1.ogg", ".ogg")>>]

AudioExtensions == {".mp3", ".wav", ".ogg", ".flac"}

IsAudio(entry) == entry.ext \in AudioExtensions

load_songs ==
    [emotion \in Moods |->
        IF emotion \in DOMAIN SongsDir
        THEN LET found == SelectSeq(SongsDir[emotion], IsAudio)
             IN  [i \in 1..Len(found) |-> found[i].path]
        ELSE <<>>]

\* self.songs, line 63
songs == load_songs

Range(s) == {s[i] : i \in 1..Len(s)}

(***************************************************************************)
(* get_dominant_emotion_category                                           *)
(***************************************************************************)
\* max(items, key): the first item, in iteration order, whose key is maximal
FirstMax(keys) ==
    CHOOSE i \in 1..Len(keys) :
        /\ \A j \in 1..Len(keys) : keys[j] <= keys[i]
        /\ \A j \in 1..(i - 1) : keys[j] < keys[i]

Scores(emos) == [i \in 1..Len(emos) |-> emos[i][2]]

CategoryOf(dominant_emotion) ==
    LET hits == {i \in 1..Len(emotion_categories) :
                    dominant_emotion \in emotion_categories[i][2]}
    IN  IF hits = {} THEN "neutral"
        ELSE emotion_categories[CHOOSE i \in hits : \A j \in hits : i <= j][1]

BelowThresholdOff(conf) == conf < 0

BelowThresholdInclusive(conf) == conf <= confidence_threshold

\* line 103
BelowThreshold(conf) == conf < confidence_threshold

get_dominant_emotion_category(emos) ==
    IF emos = <<>> THEN <<None, 0>>
    ELSE LET item == emos[FirstMax(Scores(emos))]
         IN  IF BelowThreshold(item[2]) THEN <<None, item[2]>>
             ELSE <<CategoryOf(item[1]), item[2]>>

(***************************************************************************)
(* emotion_history and get_smoothed_emotion                                *)
(***************************************************************************)
HistoryAppendNoEviction(h, c) ==
    IF Len(h) >= history_maxlen THEN h ELSE Append(h, c)

\* deque(maxlen=10).append, lines 51 and 243
HistoryAppend(h, c) ==
    IF Len(h) >= history_maxlen THEN Append(Tail(h), c) ELSE Append(h, c)

Truthy(e) == e # None

Count(h, e) == Cardinality({i \in 1..Len(h) : h[i] = e})

get_smoothed_emotion_short(h) ==
    IF Len(h) <= min_history THEN None ELSE h[Len(h)]

get_smoothed_emotion_newest(h) ==
    IF Len(h) < min_history THEN None ELSE h[Len(h)]

get_smoothed_emotion_lastkey(h) ==
    IF Len(h) < min_history THEN None
    ELSE LET counted == SelectSeq(h, Truthy)
             keyIdx  == {i \in 1..Len(counted) :
                            \A j \in 1..(i - 1) : counted[j] # counted[i]}
             best    == {i \in keyIdx : \A k \in keyIdx :
                            Count(counted, counted[k]) <= Count(counted, counted[i])}
         IN  IF counted = <<>> THEN None
             ELSE counted[CHOOSE i \in best : \A k \in best : k <= i]

\* lines 117-137
get_smoothed_emotion(h) ==
    IF Len(h) < min_history THEN None
    ELSE LET counted == SelectSeq(h, Truthy)
             \* dict keys in insertion order: the first occurrence of each value
             keyIdx  == {i \in 1..Len(counted) :
                            \A j \in 1..(i - 1) : counted[j] # counted[i]}
             best    == {i \in keyIdx : \A k \in keyIdx :
                            Count(counted, counted[k]) <= Count(counted, counted[i])}
         IN  IF counted = <<>> THEN None
             ELSE counted[CHOOSE i \in best : \A k \in best : i <= k]

(***************************************************************************)
(* play_song_for_emotion                                                   *)
(***************************************************************************)
\* A call is recorded with its call site ("commit", line 275, or "replay",
\* line 287), its argument, the song chosen and how it ended.
Call(site, emotion, choice, outcome) ==
    [site |-> site, emotion |-> emotion, choice |-> choice, outcome |-> outcome]

\* An outcome of a call: the new current_song, the mixer's busy flag, the
\* mixer calls made and the record of the call.
NoSongsOutcomeClears(emotion, site) ==
    [song |-> None, busy |-> music_busy, ops |-> <<>>,
     call |-> Call(site, emotion, None, "no_songs")]

NoSongsOutcomeStops(emotion, site) ==
    [song |-> current_song, busy |-> FALSE, ops |-> << <<"stop">> >>,
     call |-> Call(site, emotion, None, "no_songs")]

\* lines 166-168: nothing to play, the call returns
NoSongsOutcome(emotion, site) ==
    [song |-> current_song, busy |-> music_busy, ops |-> <<>>,
     call |-> Call(site, emotion, None, "no_songs")]

SongChoicesAnyMood(emotion) == UNION {Range(songs[m]) : m \in DOMAIN songs}

\* line 171: random.choice(self.songs[emotion])
SongChoices(emotion) == Range(songs[emotion])

\* `faults` are the mixer operations that may raise in this environment.
PlayOutcomes(emotion, site, faults) ==
    IF emotion \notin DOMAIN songs \/ songs[emotion] = <<>>
    THEN {NoSongsOutcome(emotion, site)}
    ELSE UNION {
           {[song |-> song, busy |-> TRUE,
             ops |-> << <<"stop">>, <<"load", song>>, <<"play">> >>,
             call |-> Call(site, emotion, song, "playing")]}
           \cup
           {[song |-> current_song, busy |-> FALSE,
             ops |-> IF f = "load" THEN << <<"stop">>, <<"load", song>> >>
                     ELSE << <<"stop">>, <<"load", song>>, <<"play">> >>,
             call |-> Call(site, emotion, song, f \o "_error")]
            : f \in faults}
           : song \in SongChoices(emotion)}

(***************************************************************************)
(* run(): the end of an iteration and the cleanup                          *)
(***************************************************************************)
CleanupOps == << <<"stop">>, <<"quit">> >>

EndOfIteration(key, busy, ops) ==
    IF key
    THEN /\ pc' = "done"
         /\ cap_opened' = FALSE
         /\ mixer_init' = FALSE
         /\ music_busy' = FALSE
         /\ mixer_ops' = ops \o CleanupOps
         /\ frame_count' = frame_count
    ELSE /\ pc' = pc
         /\ UNCHANGED <<cap_opened, mixer_init>>
         /\ music_busy' = busy
         /\ mixer_ops' = ops
         /\ frame_count' = (frame_count + 1) % detection_frequency

Play(emotion, site, key, faults) ==
    \E o \in PlayOutcomes(emotion, site, faults) :
        /\ current_song' = o.song
        /\ play_calls' = <<o.call>>
        /\ EndOfIteration(key, o.busy, o.ops)

NoPlayPolls(key) ==
    IF ~music_busy /\ current_emotion # None
    THEN Play(current_emotion, "replay", key, {})
    ELSE /\ current_song' = current_song
         /\ play_calls' = <<>>
         /\ EndOfIteration(key, music_busy, <<>>)

\* an iteration, or a branch of the gate, with no call of play_song_for_emotion
NoPlay(key) ==
    /\ current_song' = current_song
    /\ play_calls' = <<>>
    /\ EndOfIteration(key, music_busy, <<>>)

(***************************************************************************)
(* run(): the stability gate, lines 269-287                                *)
(***************************************************************************)
StabilityElapsedEarly(t, since) == t - since >= emotion_stability_threshold - 1

StabilityElapsedLate(t, since) == t - since > emotion_stability_threshold

StabilityElapsedClock(t, since) == t >= emotion_stability_threshold

\* line 272
StabilityElapsed(t, since) == t - since >= emotion_stability_threshold

ResetPendingKept(pending) == pending

\* line 283: the smoothed emotion is the current one, the candidate is dropped
ResetPending(pending) == None

ClearPendingKept(pending) == pending

\* line 276: the commit drops the candidate
ClearPending(pending) == None

StartTimerCredited(t, since) == IF since = NoTime THEN t ELSE since

\* line 280: a new candidate starts its timer at the clock's reading
StartTimer(t, since) == t

ReplayDueOnSilence(busy, emotion) == ~busy

ReplayDueAlways(busy, emotion) == emotion # None

\* line 286: the mixer is polled, and the committed mood must not be None
ReplayDue(busy, emotion) == ~busy /\ emotion # None

Gate(s, key, faults) ==
    IF s # None /\ s # current_emotion
    THEN IF pending_emotion = s
         THEN IF StabilityElapsed(now, pending_emotion_time)
              THEN /\ current_emotion' = s
                   /\ pending_emotion' = ClearPending(pending_emotion)
                   /\ UNCHANGED pending_emotion_time
                   /\ Play(s, "commit", key, faults)
              ELSE /\ UNCHANGED <<current_emotion, pending_emotion, pending_emotion_time>>
                   /\ NoPlay(key)
         ELSE /\ pending_emotion' = s
              /\ pending_emotion_time' = StartTimer(now, pending_emotion_time)
              /\ UNCHANGED current_emotion
              /\ NoPlay(key)
    ELSE IF s = current_emotion
         THEN /\ pending_emotion' = ResetPending(pending_emotion)
              /\ UNCHANGED <<current_emotion, pending_emotion_time>>
              /\ IF ReplayDue(music_busy, current_emotion)
                 THEN Play(current_emotion, "replay", key, faults)
                 ELSE NoPlay(key)
         ELSE /\ UNCHANGED <<current_emotion, pending_emotion, pending_emotion_time>>
              /\ NoPlay(key)

(***************************************************************************)
(* run(): the actions                                                      *)
(***************************************************************************)
Areas(result) == [i \in 1..Len(result) |-> result[i].box[3] * result[i].box[4]]

CameraOpened ==
    /\ pc = "init"
    /\ pc' = "loop"
    /\ cap_opened' = TRUE
    /\ frame_count' = 0
    /\ pending_emotion' = None
    /\ pending_emotion_time' = NoTime
    /\ UNCHANGED <<mixer_init, music_busy, now, emotion_history, current_emotion,
                   current_song, norm_arg, norm_ret,
                   smoothed_emotion, appended, play_calls, mixer_ops>>

CameraUnavailable ==
    /\ pc = "init"
    /\ pc' = "done"
    /\ UNCHANGED <<cap_opened, mixer_init, music_busy, now, emotion_history,
                   current_emotion, current_song, frame_count, pending_emotion,
                   pending_emotion_time, norm_arg, norm_ret,
                   smoothed_emotion, appended, play_calls, mixer_ops>>

ReadFailContinues ==
    /\ pc = "loop"
    /\ mixer_ops' = <<>>
    /\ play_calls' = <<>>
    /\ appended' = None
    /\ UNCHANGED <<pc, cap_opened, mixer_init, music_busy, now, emotion_history,
                   current_emotion, current_song, frame_count, pending_emotion,
                   pending_emotion_time, norm_arg, norm_ret, smoothed_emotion>>

\* lines 211-215: no frame, the loop is left and the cleanup runs
ReadFail ==
    /\ pc = "loop"
    /\ pc' = "done"
    /\ cap_opened' = FALSE
    /\ mixer_init' = FALSE
    /\ music_busy' = FALSE
    /\ mixer_ops' = CleanupOps
    /\ play_calls' = <<>>
    /\ appended' = None
    /\ UNCHANGED <<now, emotion_history, current_emotion, current_song, frame_count,
                   pending_emotion, pending_emotion_time, norm_arg, norm_ret, smoothed_emotion>>

\* An iteration that does not run the detector; `key` is whether waitKey
\* reports the quit key.
Skip(key) ==
    /\ pc = "loop"
    /\ frame_count % detection_frequency # 0
    /\ appended' = None
    /\ NoPlay(key)
    /\ UNCHANGED <<now, emotion_history, current_emotion, pending_emotion,
                   pending_emotion_time, norm_arg, norm_ret,
                   smoothed_emotion>>

SkippedFrame == \E key \in BOOLEAN : Skip(key)

\* An iteration that runs the detector, which answers with `detection`.
Analyse(detection, key, faults) ==
    /\ pc = "loop"
    /\ frame_count % detection_frequency = 0
    /\ UNCHANGED <<now, norm_arg, norm_ret>>
    /\   \* line 230: an exception of the detector leaves result = None
         LET result == IF detection.raised THEN <<>> ELSE detection.faces
         IN  IF result # <<>>
             THEN LET face == result[FirstMax(Areas(result))]
                      dom  == get_dominant_emotion_category(face.emotions)
                  IN  IF dom[1] # None
                      THEN /\ emotion_history' = HistoryAppend(emotion_history, dom[1])
                           /\ appended' = dom[1]
                           /\ smoothed_emotion' = get_smoothed_emotion(emotion_history')
                           /\ Gate(smoothed_emotion', key, faults)
                      ELSE /\ UNCHANGED <<emotion_history, smoothed_emotion,
                                          current_emotion, pending_emotion,
                                          pending_emotion_time>>
                           /\ appended' = None
                           /\ NoPlay(key)
             ELSE /\ UNCHANGED <<emotion_history, smoothed_emotion, current_emotion,
                                 pending_emotion, pending_emotion_time>>
                  /\ appended' = None
                  /\ NoPlay(key)

AnalysedFrame(detections, faults) ==
    \E detection \in detections, key \in BOOLEAN : Analyse(detection, key, faults)

Tick(horizon) ==
    /\ now < horizon
    /\ now' = now + 1
    /\ UNCHANGED <<pc, cap_opened, mixer_init, music_busy, emotion_history,
                   current_emotion, current_song, frame_count, pending_emotion,
                   pending_emotion_time, norm_arg, norm_ret,
                   smoothed_emotion, appended, play_calls, mixer_ops>>

TrackEnds ==
    /\ music_busy
    /\ music_busy' = FALSE
    /\ UNCHANGED <<pc, cap_opened, mixer_init, now, emotion_history,
                   current_emotion, current_song, frame_count, pending_emotion,
                   pending_emotion_time, norm_arg, norm_ret,
                   smoothed_emotion, appended, play_calls, mixer_ops>>

(***************************************************************************)
(* The detector's answers                                                  *)
(***************************************************************************)
HappyScores == << <<"happy", 80>>, <<"sad", 10>> >>

AngryScores == << <<"happy", 30>>, <<"angry", 60>> >>

SurpriseScores == << <<"surprise", 50>>, <<"neutral", 50>> >>

LowScores == << <<"neutral", 29>>, <<"happy", 20>> >>

SmallBox == <<4, 4, 2, 3>>

LargeBox == <<1, 1, 3, 3>>

Face(b, m) == [box |-> b, emotions |-> m]

SeqsUpTo(S, n) == UNION {[1..k -> S] : k \in 0..n}

Detection(raised, faces) == [raised |-> raised, faces |-> faces]

\* The detector raises, finds no face, finds one face, or finds two faces of
\* which the larger one carries the category.
Detections(maps) ==
    {Detection(TRUE, <<>>), Detection(FALSE, <<>>)}
    \cup {Detection(FALSE, <<Face(LargeBox, m)>>) : m \in maps}
    \cup {Detection(FALSE, <<Face(SmallBox, LowScores), Face(LargeBox, m)>>) : m \in maps}
    \cup {Detection(FALSE, <<Face(LargeBox, m), Face(SmallBox, SurpriseScores)>>) : m \in maps}

GateDetections == Detections({HappyScores, AngryScores, LowScores})

AllFaults == {"load", "play"}

(***************************************************************************)
(* Logs kept beside the player                                             *)
(***************************************************************************)
\* What an iteration read: kind is "read_fail" (cap.read() gave no frame),
\* "skipped" or "analysed"; detection is the detector's answer of an analysed
\* iteration; key is the quit key.
Observed(kind, detection, key) == [kind |-> kind, detection |-> detection, key |-> key]

NothingObserved == Observed("none", Detection(FALSE, <<>>), FALSE)

\* first_smoothed: the clock at the first smoothed output that was not None;
\* commits: the clock at every commit.
NoTimeline == [first_smoothed |-> NoTime, commits |-> <<>>]

Unlogged == UNCHANGED <<pushed, observed, timeline>>

(***************************************************************************)
(* The player: what run() does, with the clock and the mixer running       *)
(***************************************************************************)
Init ==
    /\ pc = "init"
    /\ cap_opened = FALSE
    /\ mixer_init = TRUE
    /\ music_busy = FALSE
    /\ now = 0
    /\ emotion_history = <<>>
    /\ current_emotion = None
    /\ current_song = None
    /\ frame_count = 0
    /\ pending_emotion = None
    /\ pending_emotion_time = NoTime
    /\ norm_arg = <<>>
    /\ norm_ret = <<None, 0>>
    /\ smoothed_emotion = None
    /\ appended = None
    /\ play_calls = <<>>
    /\ mixer_ops = <<>>
    /\ pushed = <<>>
    /\ observed = NothingObserved
    /\ timeline = NoTimeline

\* The player with a mixer that may fail and tracks that end, up to PlayTime.
Next ==
    \/ CameraOpened /\ Unlogged
    \/ CameraUnavailable /\ Unlogged
    \/ ReadFail /\ Unlogged
    \/ SkippedFrame /\ Unlogged
    \/ AnalysedFrame(GateDetections, AllFaults) /\ Unlogged
    \/ Tick(PlayTime) /\ Unlogged
    \/ TrackEnds /\ Unlogged

Spec == Init /\ [][Next]_vars

\* The player with a mixer that never fails, up to MaxTime.
GateNext ==
    \/ CameraOpened /\ Unlogged
    \/ CameraUnavailable /\ Unlogged
    \/ ReadFail /\ Unlogged
    \/ SkippedFrame /\ Unlogged
    \/ AnalysedFrame(GateDetections, {}) /\ Unlogged
    \/ Tick(MaxTime) /\ Unlogged

GateSpec == Init /\ [][GateNext]_vars

\* The same player up to LiveTime, with a loop that keeps iterating, a clock
\* that keeps advancing and a detector that keeps answering with one
\* confident face (infinitely many of the analysed frames are such).
LiveDetections == Detections({HappyScores, LowScores})

ConfidentDetections == {Detection(FALSE, <<Face(LargeBox, HappyScores)>>)}

LiveNext ==
    \/ CameraOpened /\ Unlogged
    \/ CameraUnavailable /\ Unlogged
    \/ ReadFail /\ Unlogged
    \/ SkippedFrame /\ Unlogged
    \/ AnalysedFrame(LiveDetections, {}) /\ Unlogged
    \/ Tick(LiveTime) /\ Unlogged

LiveSpec ==
    /\ Init
    /\ [][LiveNext]_vars
    /\ WF_vars(Tick(LiveTime) /\ Unlogged)
    /\ WF_vars(SkippedFrame /\ Unlogged)
    /\ SF_vars(AnalysedFrame(ConfidentDetections, {}) /\ Unlogged)

\* The player with three moods in front of the camera and the clock standing
\* still: every history the deque can hold.
HistDetections == Detections({HappyScores, AngryScores, SurpriseScores, LowScores})

HistNext ==
    \/ CameraOpened /\ Unlogged
    \/ CameraUnavailable /\ Unlogged
    \/ ReadFail /\ Unlogged
    \/ SkippedFrame /\ Unlogged
    \/ AnalysedFrame(HistDetections, {}) /\ Unlogged

HistSpec == Init /\ [][HistNext]_vars

\* The player with every appended category logged, up to MaxPushes of them.
LogPush ==
    /\ pushed' = IF appended' # None THEN Append(pushed, appended') ELSE pushed
    /\ Len(pushed') <= MaxPushes
    /\ UNCHANGED <<observed, timeline>>

FifoNext ==
    \/ CameraOpened /\ LogPush
    \/ CameraUnavailable /\ LogPush
    \/ ReadFail /\ LogPush
    \/ SkippedFrame /\ LogPush
    \/ AnalysedFrame(GateDetections, {}) /\ LogPush

FifoSpec == Init /\ [][FifoNext]_vars

\* The player with what every iteration read logged, up to ObsTime.
LogObserved(kind, detection, key) ==
    /\ observed' = Observed(kind, detection, key)
    /\ UNCHANGED <<pushed, timeline>>

ObsNext ==
    \/ CameraOpened /\ Unlogged
    \/ CameraUnavailable /\ Unlogged
    \/ ReadFail /\ LogObserved("read_fail", Detection(FALSE, <<>>), FALSE)
    \/ \E key \in BOOLEAN :
          Skip(key) /\ LogObserved("skipped", Detection(FALSE, <<>>), key)
    \/ \E detection \in GateDetections, key \in BOOLEAN :
          Analyse(detection, key, {}) /\ LogObserved("analysed", detection, key)
    \/ Tick(ObsTime) /\ Unlogged

ObsSpec == Init /\ [][ObsNext]_vars

\* The player with the clock logged at the first smoothed output and at every
\* commit, up to MaxTime.
LogTimeline ==
    /\ timeline' =
          [first_smoothed |->
              IF timeline.first_smoothed = NoTime /\ smoothed_emotion' # None
              THEN now ELSE timeline.first_smoothed,
           commits |->
              IF current_emotion' # current_emotion
              THEN Append(timeline.commits, now) ELSE timeline.commits]
    /\ UNCHANGED <<pushed, observed>>

SpacingDetections ==
    {Detection(TRUE, <<>>),
     Detection(FALSE, <<Face(LargeBox, HappyScores)>>),
     Detection(FALSE, <<Face(SmallBox, LowScores), Face(LargeBox, AngryScores)>>)}

SpacingNext ==
    \/ CameraOpened /\ LogTimeline
    \/ CameraUnavailable /\ LogTimeline
    \/ ReadFail /\ LogTimeline
    \/ SkippedFrame /\ LogTimeline
    \/ AnalysedFrame(SpacingDetections, {}) /\ LogTimeline
    \/ Tick(MaxTime) /\ Unlogged

SpacingSpec == Init /\ [][SpacingNext]_vars

(***************************************************************************)
(* get_dominant_emotion_category called on its own, on every score mapping *)
(* of at most MaxLabels labels                                             *)
(***************************************************************************)
Labels == {"angry", "disgust", "fear", "happy", "sad", "surprise", "neutral",
           "contempt"}

ScoreValues == {0, 29, 30, 31, 100}

ScoreMaps ==
    {m \in SeqsUpTo(Labels \X ScoreValues, MaxLabels) :
        \A i, j \in 1..Len(m) : i # j => m[i][1] # m[j][1]}

NormInit ==
    /\ pc = "call"
    /\ norm_arg \in ScoreMaps
    /\ norm_ret = <<None, 0>>
    /\ cap_opened = FALSE
    /\ mixer_init = TRUE
    /\ music_busy = FALSE
    /\ now = 0
    /\ emotion_history = <<>>
    /\ current_emotion = None
    /\ current_song = None
    /\ frame_count = 0
    /\ pending_emotion = None
    /\ pending_emotion_time = NoTime
    /\ smoothed_emotion = None
    /\ appended = None
    /\ play_calls = <<>>
    /\ mixer_ops = <<>>
    /\ pushed = <<>>
    /\ observed = NothingObserved
    /\ timeline = NoTimeline

Normalize ==
    /\ pc = "call"
    /\ pc' = "return"
    /\ norm_ret' = get_dominant_emotion_category(norm_arg)
    /\ UNCHANGED <<cap_opened, mixer_init, music_busy, now, emotion_history,
                   current_emotion, current_song, frame_count, pending_emotion,
                   pending_emotion_time, norm_arg, smoothed_emotion, appended,
                   play_calls, mixer_ops, pushed, observed, timeline>>

NormNext == Normalize

NormSpec == NormInit /\ [][NormNext]_vars

(***************************************************************************)
(* Steps of run()                                                          *)
(***************************************************************************)
\* This step is one iteration of the loop of run().
IterationStep == pc = "loop" /\ (frame_count' # frame_count \/ pc' = "done")

\* This step is an analysed iteration that appended a category to the history
\* and so produced a smoothed output.
SmoothedStep == IterationStep /\ appended' # None

\* This step commits a mood.
CommitStep == current_emotion' # current_emotion

(***************************************************************************)
(* C1.  No early commit: the committed mood changes to m only on an        *)
(* analysed frame at which the pending candidate is m, the smoothed output *)
(* is m and now - since >= 3 seconds, where since is the time at which the *)
(* pending candidate m was set.                                            *)
(***************************************************************************)
C1_NoEarlyCommit ==
    [][/\ CommitStep =>
            /\ SmoothedStep
            /\ frame_count = 0
            /\ current_emotion' \in Moods
            /\ pending_emotion = current_emotion'
            /\ smoothed_emotion' = current_emotion'
            /\ pending_emotion_time # NoTime
            /\ now - pending_emotion_time >= 3
       \* since is the clock reading of the frame that made m the candidate
       /\ (pending_emotion' # pending_emotion /\ pending_emotion' # None) =>
            /\ pending_emotion_time' = now
            /\ current_emotion' = current_emotion]_vars

\* A commit made exactly 3 seconds after its candidate was set.
C1_Witness ==
    /\ current_emotion = "happy"
    /\ pending_emotion = None
    /\ play_calls # <<>>
    /\ play_calls[1].site = "commit"
    /\ play_calls[1].emotion = "happy"
    /\ now - pending_emotion_time = 3

(***************************************************************************)
(* C2.  Revert cancels the excursion: an analysed frame whose smoothed     *)
(* output equals the committed mood while a candidate is pending resets    *)
(* the pending state and commits nothing; a candidate that becomes pending *)
(* afterwards gets the clock reading of that later frame as its timer, and *)
(* a commit is measured from that timer, so that the time before the       *)
(* revert never counts.                                                    *)
(***************************************************************************)
C2_RevertCancels ==
    [][/\ (SmoothedStep /\ pending_emotion # None
                        /\ smoothed_emotion' = current_emotion) =>
            /\ pending_emotion' = None
            /\ current_emotion' = current_emotion
            /\ \A i \in 1..Len(play_calls') : play_calls'[i].site # "commit"
       /\ (pending_emotion = None /\ pending_emotion' # None) =>
            /\ pending_emotion_time' = now
            /\ current_emotion' = current_emotion
       /\ CommitStep =>
            /\ pending_emotion = current_emotion'
            /\ now - pending_emotion_time >= emotion_stability_threshold]_vars

\* The state a revert leaves: a mood is committed, the smoothed output is that
\* mood, nothing is pending, and the dropped candidate's dwell had not elapsed.
C2_Witness ==
    /\ pc = "loop"
    /\ current_emotion # None
    /\ appended # None
    /\ smoothed_emotion = current_emotion
    /\ pending_emotion = None
    /\ pending_emotion_time # NoTime
    /\ now - pending_emotion_time < emotion_stability_threshold

(***************************************************************************)
(* C3.  Commit eventually happens: while the loop keeps analysing frames   *)
(* with a confident detection and the clock keeps advancing, a pending     *)
(* candidate m leads to a commit to m (committed mood m, nothing pending), *)
(* unless the smoothed output stops being m or run() ends.  The clock of   *)
(* the model stops at LiveTime, so the candidates are those whose dwell     *)
(* ends by then.                                                           *)
(***************************************************************************)
C3_CommitEventually ==
    /\ \A m \in Moods :
         (/\ pc = "loop"
          /\ pending_emotion = m
          /\ pending_emotion_time + emotion_stability_threshold <= LiveTime)
         ~> (\/ pc = "done"
             \/ smoothed_emotion # m
             \/ current_emotion = m /\ pending_emotion = None)
    \* the commit is made by the first such frame whose clock reading is late enough
    /\ [][(/\ SmoothedStep
            /\ smoothed_emotion' # current_emotion
            /\ smoothed_emotion' = pending_emotion
            /\ now - pending_emotion_time >= 3) =>
                (current_emotion' = smoothed_emotion' /\ pending_emotion' = None)]_vars

\* The commit has happened for a candidate set after the clock started, and
\* the loop goes on.
C3_Witness ==
    /\ pc = "loop"
    /\ current_emotion = "happy"
    /\ pending_emotion = None
    /\ pending_emotion_time > 0
    /\ current_song # None
    /\ play_calls # <<>>
    /\ play_calls[1].site = "commit"

(***************************************************************************)
(* C4.  EmotionHistory invariant: the history has length <= 10 and holds   *)
(* only moods from {happy, sad, neutral}; pushes are FIFO: after n pushes  *)
(* the history is the last min(n, 10) pushed categories in push order, so  *)
(* that after 11 pushes the first pushed entry is gone.                    *)
(***************************************************************************)
C4_LastPushed ==
    LET n == IF Len(pushed) < 10 THEN Len(pushed) ELSE 10
    IN  [i \in 1..n |-> pushed[Len(pushed) - n + i]]

C4_HistoryFifo ==
    /\ Len(emotion_history) <= 10
    /\ \A i \in 1..Len(emotion_history) :
          emotion_history[i] \in {"happy", "sad", "neutral"}
    /\ emotion_history = C4_LastPushed

\* Eleven pushes, the first of them the only sad one: it is gone.
C4_Witness ==
    /\ Len(pushed) = 11
    /\ pushed[1] = "sad"
    /\ \A i \in 2..11 : pushed[i] = "happy"
    /\ Len(emotion_history) = 10
    /\ \A i \in 1..10 : emotion_history[i] # "sad"

(***************************************************************************)
(* C5.  get_smoothed_emotion returns None whenever the history holds fewer *)
(* than 3 entries and a category whenever it holds 3 or more: the smoothed *)
(* output first becomes non-None when the third category is pushed.        *)
(***************************************************************************)
C5_SmoothedNeedsThree ==
    /\ Len(emotion_history) < 3 => smoothed_emotion = None
    /\ Len(emotion_history) >= 3 => smoothed_emotion \in {"happy", "sad", "neutral"}

\* The third push, of three different categories, has just been made.
C5_Witness ==
    /\ Len(emotion_history) = 3
    /\ appended # None
    /\ emotion_history[1] # emotion_history[2]
    /\ emotion_history[2] # emotion_history[3]
    /\ emotion_history[1] # emotion_history[3]
    /\ smoothed_emotion # None

(***************************************************************************)
(* C6.  Majority vote: for every history of length 3 to 10 the smoothed    *)
(* output occurs in the history and no category occurs strictly more often *)
(* than it does.                                                           *)
(***************************************************************************)
C6_Occurrences(e) ==
    Cardinality({i \in 1..Len(emotion_history) : emotion_history[i] = e})

C6_MajorityVote ==
    (Len(emotion_history) >= 3 /\ Len(emotion_history) <= 10) =>
        /\ C6_Occurrences(smoothed_emotion) >= 1
        /\ \A e \in {"happy", "sad", "neutral"} :
              C6_Occurrences(e) <= C6_Occurrences(smoothed_emotion)

\* A full history whose majority is neither its oldest nor its newest entry.
C6_Witness ==
    /\ Len(emotion_history) = 10
    /\ smoothed_emotion = "neutral"
    /\ emotion_history[1] = "happy"
    /\ emotion_history[10] = "sad"
    /\ C6_Occurrences("neutral") = 4
    /\ C6_Occurrences("happy") = 3

(***************************************************************************)
(* C7.  Normalizer result: for every non-empty score mapping the category  *)
(* is None exactly when the maximum score is below the threshold 0.3 (a    *)
(* maximum equal to the threshold is accepted); otherwise it is the mood   *)
(* of the winning label (the first label of maximum score): happy ->       *)
(* happy; sad, fear, angry -> sad; neutral, surprise, disgust and any      *)
(* unrecognised label -> neutral.                                          *)
(***************************************************************************)
C7_Table(label) ==
    IF label = "happy" THEN "happy"
    ELSE IF label \in {"sad", "fear", "angry"} THEN "sad"
    ELSE "neutral"

C7_NormalizerResult ==
    (pc = "return" /\ norm_arg # <<>>) =>
        LET top    == CHOOSE x \in {norm_arg[i][2] : i \in 1..Len(norm_arg)} :
                         \A i \in 1..Len(norm_arg) : norm_arg[i][2] <= x
            first  == CHOOSE i \in 1..Len(norm_arg) :
                         /\ norm_arg[i][2] = top
                         /\ \A j \in 1..(i - 1) : norm_arg[j][2] # top
        IN  /\ norm_ret[1] = None <=> top < 30
            /\ top >= 30 => norm_ret[1] = C7_Table(norm_arg[first][1])

\* A winning score equal to the threshold is accepted, and fear is sad.
C7_Witness ==
    /\ pc = "return"
    /\ Len(norm_arg) = 2
    /\ norm_arg[1] = <<"neutral", 29>>
    /\ norm_arg[2] = <<"fear", 30>>
    /\ norm_ret = <<"sad", 30>>

(***************************************************************************)
(* C8.  Empty bucket is a no-op: play_song_for_emotion for a mood that is  *)
(* absent from the catalog or has no tracks chooses nothing, leaves        *)
(* current_song unchanged and makes no stop, load or play on the mixer.    *)
(***************************************************************************)
C8_EmptyBucketNoOp ==
    [][(/\ IterationStep
        /\ play_calls' # <<>>
        /\ (\/ play_calls'[1].emotion \notin {"happy", "sad", "neutral"}
            \/ \A i \in 1..Len(SongsDir[play_calls'[1].emotion]) :
                  SongsDir[play_calls'[1].emotion][i].ext
                      \notin {".mp3", ".wav", ".ogg", ".flac"})) =>
            /\ play_calls'[1].choice = None
            /\ play_calls'[1].outcome = "no_songs"
            /\ current_song' = current_song
            /\ pc' = "loop" => (mixer_ops' = <<>> /\ music_busy' = music_busy)
            /\ pc' = "done" => mixer_ops' = CleanupOps]_vars

\* The call was made for sad, whose folder holds no audio file, while a track
\* was playing: it still is.
C8_Witness ==
    /\ pc = "loop"
    /\ play_calls # <<>>
    /\ play_calls[1].emotion = "sad"
    /\ play_calls[1].outcome = "no_songs"
    /\ current_song = "happy/a2.wav"
    /\ music_busy
    /\ mixer_ops = <<>>

(***************************************************************************)
(* C9.  As claimed: for every mood m whose bucket has N > 0 tracks, after  *)
(* play_song_for_emotion(m) the current track is a member of catalog[m].   *)
(***************************************************************************)
C9_TrackFromBucket ==
    (play_calls # <<>> /\ songs[play_calls[1].emotion] # <<>>) =>
        current_song \in Range(songs[play_calls[1].emotion])

(***************************************************************************)
(* C9, amended.  For every mood m whose bucket has N > 0 tracks, the track *)
(* play_song_for_emotion(m) chooses is a member of catalog[m], and when    *)
(* load and play succeed the current track is that track after the call.   *)
(***************************************************************************)
C9_ChosenFromBucket ==
    [][(/\ IterationStep
        /\ play_calls' # <<>>
        /\ songs[play_calls'[1].emotion] # <<>>) =>
            /\ \E i \in 1..Len(SongsDir[play_calls'[1].emotion]) :
                  /\ SongsDir[play_calls'[1].emotion][i].path = play_calls'[1].choice
                  /\ SongsDir[play_calls'[1].emotion][i].ext
                         \in {".mp3", ".wav", ".ogg", ".flac"}
            /\ play_calls'[1].outcome = "playing" =>
                  current_song' = play_calls'[1].choice]_vars

\* A replay for happy chose the other track of the bucket, and it plays.
C9_Witness ==
    /\ play_calls # <<>>
    /\ play_calls[1].site = "replay"
    /\ play_calls[1].emotion = "happy"
    /\ play_calls[1].outcome = "playing"
    /\ current_song = "happy/a2.wav"
    /\ music_busy

(***************************************************************************)
(* C10.  Gate commit and playback outcome are independent: on an analysed  *)
(* frame that meets the dwell condition for candidate m, the committed     *)
(* mood becomes m and nothing is pending, even if catalog[m] is empty; in  *)
(* that case the commit leaves the current track and the playback state    *)
(* as they were.                                                           *)
(***************************************************************************)
C10_CommitIndependent ==
    [][(/\ SmoothedStep
        /\ smoothed_emotion' # current_emotion
        /\ smoothed_emotion' = pending_emotion
        /\ now - pending_emotion_time >= 3) =>
            /\ current_emotion' = smoothed_emotion'
            /\ pending_emotion' = None
            /\ play_calls' # <<>>
            /\ play_calls'[1].emotion = current_emotion'
            /\ (\A i \in 1..Len(SongsDir[current_emotion']) :
                    SongsDir[current_emotion'][i].ext
                        \notin {".mp3", ".wav", ".ogg", ".flac"}) =>
                  /\ current_song' = current_song
                  /\ pc' = "loop" => (music_busy' = music_busy /\ mixer_ops' = <<>>)
                  /\ pc' = "done" => mixer_ops' = CleanupOps]_vars

\* Sad, which has no track, is committed over happy: happy's track plays on.
C10_Witness ==
    /\ pc = "loop"
    /\ current_emotion = "sad"
    /\ pending_emotion = None
    /\ play_calls # <<>>
    /\ play_calls[1].site = "commit"
    /\ play_calls[1].emotion = "sad"
    /\ current_song \in {"happy/a1.mp3", "happy/a2.wav"}
    /\ music_busy

(***************************************************************************)
(* C11.  Resource release on every exit path: whenever run() has returned  *)
(* (normal quit, frame-read failure, or failure to open the camera),       *)
(* playback has been stopped, the audio subsystem has been released and    *)
(* the camera is not held.                                                 *)
(***************************************************************************)
C11_ReleasedOnEveryExit ==
    pc = "done" => (~music_busy /\ ~mixer_init /\ ~cap_opened)

(***************************************************************************)
(* C12.  No-data frames are a no-op on the decision core: an analysed      *)
(* frame on which the detector raises, returns no face, or gives the       *)
(* largest face a maximum score below the confidence threshold leaves the  *)
(* history, the pending candidate and its time, the committed mood and the *)
(* current track unchanged and calls play_song_for_emotion nowhere; unless *)
(* the quit key is pressed, the loop goes on with the next frame.          *)
(***************************************************************************)
C12_Largest(faces) ==
    faces[CHOOSE i \in 1..Len(faces) :
            /\ \A j \in 1..Len(faces) :
                  faces[j].box[3] * faces[j].box[4] <= faces[i].box[3] * faces[i].box[4]
            /\ \A j \in 1..(i - 1) :
                  faces[j].box[3] * faces[j].box[4] # faces[i].box[3] * faces[i].box[4]]

C12_NoData(detection) ==
    \/ detection.raised
    \/ detection.faces = <<>>
    \/ \A i \in 1..Len(C12_Largest(detection.faces).emotions) :
          C12_Largest(detection.faces).emotions[i][2] < 30

C12_NoDataFrameNoOp ==
    [][(/\ IterationStep
        /\ observed'.kind = "analysed"
        /\ C12_NoData(observed'.detection)) =>
            /\ UNCHANGED <<emotion_history, pending_emotion, pending_emotion_time,
                           current_emotion, current_song>>
            /\ play_calls' = <<>>
            /\ ~observed'.key =>
                  /\ pc' = "loop"
                  /\ frame_count' = (frame_count + 1) % 3
                  /\ cap_opened' /\ mixer_init'
                  /\ music_busy' = music_busy
                  /\ mixer_ops' = <<>>]_vars

\* A low-confidence face, next to a smaller one, was analysed while happy was
\* committed, its track was playing and sad was pending: all of it is as it was.
C12_Witness ==
    /\ pc = "loop"
    /\ observed.kind = "analysed"
    /\ ~observed.detection.raised
    /\ Len(observed.detection.faces) = 2
    /\ C12_Largest(observed.detection.faces).emotions = << <<"neutral", 29>>, <<"happy", 20>> >>
    /\ frame_count = 1
    /\ current_emotion = "happy"
    /\ pending_emotion = "sad"
    /\ current_song # None
    /\ music_busy

(***************************************************************************)
(* C13.  As claimed: a frame-read failure is recovered locally: it is      *)
(* treated as "no data this frame" and the loop continues with the next    *)
(* frame rather than ending the session.                                   *)
(***************************************************************************)
C13_ReadFailContinuesLoop ==
    [][(pc = "loop" /\ observed'.kind = "read_fail") =>
            /\ UNCHANGED <<emotion_history, pending_emotion, pending_emotion_time,
                           current_emotion, current_song>>
            /\ pc' = "loop"]_vars

(***************************************************************************)
(* C13, amended.  A frame-read failure is treated as "no data this frame"  *)
(* by the decision core (history, pending candidate and its time,          *)
(* committed mood and current track unchanged, no call of                  *)
(* play_song_for_emotion), but it ends the session: the loop is left,      *)
(* playback is stopped and the camera and the mixer are released.          *)
(***************************************************************************)
C13_ReadFailEndsSession ==
    [][(pc = "loop" /\ observed'.kind = "read_fail") =>
            /\ UNCHANGED <<emotion_history, pending_emotion, pending_emotion_time,
                           current_emotion, current_song>>
            /\ play_calls' = <<>>
            /\ pc' = "done"
            /\ ~cap_opened' /\ ~mixer_init' /\ ~music_busy'
            /\ mixer_ops' = << <<"stop">>, <<"quit">> >>]_vars

\* The read failed while happy's track was playing and sad was pending.
C13_Witness ==
    /\ pc = "done"
    /\ observed.kind = "read_fail"
    /\ current_emotion = "happy"
    /\ pending_emotion = "sad"
    /\ current_song # None
    /\ ~music_busy
    /\ ~mixer_init

(***************************************************************************)
(* C14.  Candidate change restarts the dwell timer: on an analysed frame   *)
(* whose smoothed output s is a mood other than the committed one, if      *)
(* nothing is pending or the pending candidate is not s, then s becomes    *)
(* the pending candidate with the clock's reading as its time and nothing  *)
(* is committed or played on that frame, however long the former           *)
(* candidate had been pending; a commit is measured from that time.        *)
(***************************************************************************)
C14_CandidateRestartsTimer ==
    [][/\ (/\ SmoothedStep
           /\ smoothed_emotion' # None
           /\ smoothed_emotion' # current_emotion
           /\ pending_emotion # smoothed_emotion') =>
               /\ pending_emotion' = smoothed_emotion'
               /\ pending_emotion_time' = now
               /\ current_emotion' = current_emotion
               /\ play_calls' = <<>>
       /\ CommitStep =>
               /\ pending_emotion = current_emotion'
               /\ now - pending_emotion_time >= 3]_vars

\* Happy was the first smoothed output and so the first candidate; at a clock
\* reading of 3 or more the fourth sad in a row makes sad the majority: sad is
\* pending from this reading on and nothing has been committed.
C14_Witness ==
    /\ pc = "loop"
    /\ now >= 3
    /\ emotion_history = <<"happy", "happy", "happy", "sad", "sad", "sad", "sad">>
    /\ appended = "sad"
    /\ smoothed_emotion = "sad"
    /\ current_emotion = None
    /\ pending_emotion = "sad"
    /\ pending_emotion_time = now
    /\ play_calls = <<>>

(***************************************************************************)
(* C15.  As claimed: when two or more categories share the maximal count   *)
(* in the history, the smoothed output is, among the tied categories, the  *)
(* one that was most recently appended to the history.                     *)
(***************************************************************************)
C15_Tied ==
    {e \in {"happy", "sad", "neutral"} :
        /\ C6_Occurrences(e) >= 1
        /\ \A f \in {"happy", "sad", "neutral"} : C6_Occurrences(f) <= C6_Occurrences(e)}

C15_LastIndex(e) ==
    CHOOSE i \in 1..Len(emotion_history) :
        /\ emotion_history[i] = e
        /\ \A j \in (i + 1)..Len(emotion_history) : emotion_history[j] # e

C15_FirstIndex(e) ==
    CHOOSE i \in 1..Len(emotion_history) :
        /\ emotion_history[i] = e
        /\ \A j \in 1..(i - 1) : emotion_history[j] # e

C15_TieMostRecent ==
    (Len(emotion_history) >= 3 /\ Cardinality(C15_Tied) >= 2) =>
        /\ smoothed_emotion \in C15_Tied
        /\ \A e \in C15_Tied : C15_LastIndex(e) <= C15_LastIndex(smoothed_emotion)

(***************************************************************************)
(* C15, amended.  When two or more categories share the maximal count in   *)
(* the history, the smoothed output is, among the tied categories, the one *)
(* whose oldest entry in the history is the oldest (the first of them the  *)
(* count meets when it goes through the history from the oldest entry).    *)
(***************************************************************************)
C15_TieFirstSeen ==
    (Len(emotion_history) >= 3 /\ Cardinality(C15_Tied) >= 2) =>
        /\ smoothed_emotion \in C15_Tied
        /\ \A e \in C15_Tied : C15_FirstIndex(smoothed_emotion) <= C15_FirstIndex(e)

\* Two and two: the smoothed output is the older category, not the one
\* appended last.
C15_Witness ==
    /\ Len(emotion_history) = 4
    /\ emotion_history[1] = emotion_history[2]
    /\ emotion_history[3] = emotion_history[4]
    /\ emotion_history[1] # emotion_history[4]
    /\ appended = emotion_history[4]
    /\ smoothed_emotion = emotion_history[1]

(***************************************************************************)
(* C16.  Replay rule of the gate: on an analysed frame whose smoothed      *)
(* output equals the committed mood c, nothing is pending afterwards and   *)
(* c is still the committed mood; play_song_for_emotion is called, for c,  *)
(* exactly when c is not None and the mixer reports not busy: no replay    *)
(* while the mixer is busy or while c is None.                             *)
(***************************************************************************)
C16_ReplayRule ==
    [][(SmoothedStep /\ smoothed_emotion' = current_emotion) =>
            /\ pending_emotion' = None
            /\ current_emotion' = current_emotion
            /\ (play_calls' # <<>>) <=> (current_emotion # None /\ ~music_busy)
            /\ \A i \in 1..Len(play_calls') :
                  /\ play_calls'[i].site = "replay"
                  /\ play_calls'[i].emotion = current_emotion]_vars

\* Happy is committed and smoothed, the mixer was idle: the call was made for
\* happy, from the replay site, and a track plays again.
C16_Witness ==
    /\ pc = "loop"
    /\ appended # None
    /\ smoothed_emotion = "happy"
    /\ current_emotion = "happy"
    /\ pending_emotion = None
    /\ Len(play_calls) = 1
    /\ play_calls[1].site = "replay"
    /\ play_calls[1].emotion = "happy"
    /\ play_calls[1].choice = "happy/a1.mp3"
    /\ mixer_ops = << <<"stop">>, <<"load", "happy/a1.mp3">>, <<"play">> >>

(***************************************************************************)
(* C17.  As claimed: natural track end is polled once per frame: on every  *)
(* frame on which the mixer reports idle while a mood is committed,        *)
(* play_song_for_emotion is called, also on frames with no confident       *)
(* detection and on frames whose smoothed output is not the committed      *)
(* mood.                                                                   *)
(***************************************************************************)
C17_PolledEveryFrame ==
    [][(/\ IterationStep
        /\ pc' = "loop"
        /\ ~music_busy
        /\ current_emotion # None) => play_calls' # <<>>]_vars

(***************************************************************************)
(* C17, amended.  Natural track end is polled on the analysed frames whose *)
(* smoothed output equals the committed mood: a frame calls                *)
(* play_song_for_emotion from the replay site, for the committed mood,     *)
(* exactly when it is such a frame, a mood is committed and the mixer      *)
(* reports idle; skipped frames, frames with no confident detection and    *)
(* frames whose smoothed output differs do not replay.                     *)
(***************************************************************************)
C17_PolledOnMatchingFrames ==
    [][IterationStep =>
        /\ (\E i \in 1..Len(play_calls') : play_calls'[i].site = "replay")
              <=> (/\ SmoothedStep
                   /\ smoothed_emotion' = current_emotion
                   /\ current_emotion # None
                   /\ ~music_busy)
        /\ \A i \in 1..Len(play_calls') :
              play_calls'[i].site = "replay" =>
                  play_calls'[i].emotion = current_emotion]_vars

\* Happy is committed and its track has ended; the frame just analysed gave a
\* smoothed output of sad: nothing was replayed and the mixer is still idle.
C17_Witness ==
    /\ pc = "loop"
    /\ current_emotion = "happy"
    /\ current_song \in {"happy/a1.mp3", "happy/a2.wav"}
    /\ ~music_busy
    /\ appended = "sad"
    /\ smoothed_emotion = "sad"
    /\ pending_emotion = "sad"
    /\ play_calls = <<>>
    /\ mixer_ops = <<>>

(***************************************************************************)
(* C18.  Playback failure handling: when load or play of the mixer fails   *)
(* inside play_song_for_emotion, the failure is absorbed and current_song  *)
(* is left unset after the call: it names no track, in particular not the  *)
(* track that played before and has just been stopped.                     *)
(***************************************************************************)
C18_FailureLeavesTrackUnset ==
    [][(/\ IterationStep
        /\ play_calls' # <<>>
        /\ play_calls'[1].outcome \in {"load_error", "play_error"}) =>
            current_song' = None]_vars

(***************************************************************************)
(* C19.  Pending/committed disjointness: in every reachable state a        *)
(* pending candidate, if there is one, differs from the committed mood.    *)
(***************************************************************************)
C19_PendingDiffers ==
    pending_emotion # None => pending_emotion # current_emotion

\* After a commit of happy, sad has become the candidate.
C19_Witness ==
    /\ pc = "loop"
    /\ current_emotion = "happy"
    /\ pending_emotion = "sad"
    /\ pending_emotion_time >= 3
    /\ smoothed_emotion = "sad"

(***************************************************************************)
(* C20.  Minimum spacing of mood switches: any two consecutive commits are *)
(* at least 3 seconds of clock time apart, and the first commit of a       *)
(* session comes after at least 3 categories have been pushed and at least *)
(* 3 seconds after the first smoothed output that was not None.            *)
(***************************************************************************)
C20_MinimumSpacing ==
    /\ \A i \in 2..Len(timeline.commits) :
          timeline.commits[i] - timeline.commits[i - 1] >= 3
    /\ timeline.commits # <<>> =>
          /\ Len(emotion_history) >= 3
          /\ timeline.first_smoothed # NoTime
          /\ timeline.commits[1] - timeline.first_smoothed >= 3

\* Two commits, as early and as close as they can be: the first smoothed output
\* at 0, happy committed at 3, sad committed at 6.
C20_Witness ==
    /\ timeline.first_smoothed = 0
    /\ timeline.commits = <<3, 6>>
    /\ current_emotion = "sad"
    /\ pending_emotion = None

====
